---- MODULE Spec2Model ----
(***************************************************************************)
(* A model of the consensus core of go-seele:                              *)
(*   - miner/core.go          StartMining, the per-thread nonce search     *)
(*   - miner/task.go          Task.applyTransactions, Task.generateBlock   *)
(*   - core/types/transaction.go   newTx, Sign, Validate                   *)
(* Three specifications share the module: SpecMine (one mining round),     *)
(* SpecTx (the life of one transaction) and SpecTask (one task assembly).  *)
(***************************************************************************)
EXTENDS Integers, Sequences, FiniteSets, TLC

VARIABLES
    \* ---- one mining round (miner/core.go) ----
    task,          \* the Task every thread of the round is started with
    assign,        \* per thread: the seed, min, max arguments of StartMining
    callerQuota,   \* how many Results the caller of the round will receive
    pc,            \* per thread: its position in StartMining
    nonce,         \* per thread: the local variable nonce
    block,         \* per thread: its own block, from task.generateBlock()
    abort,         \* TRUE once the abort channel has been closed
    isNonceFound,  \* the shared int32 flag
    received,      \* what the caller has received from the result channel
    sent,          \* per thread: what it has sent on the result channel
    tried,         \* per thread: the nonces it has written to its header and hashed
    inFlight,      \* per thread: it was inside an iteration when abort was closed
    lateHashes,    \* per thread: the hashes it has started since abort was closed
    sends,         \* per thread: how many sends of it the result channel has taken
    stored,        \* the threads that have stored 1 to isNonceFound
    \* ---- one transaction (core/types/transaction.go) ----
    tx,            \* the *Transaction under construction and validation, or nil
    txErr,         \* the error (or panic) of the constructor
    statedb,       \* the account state: balance and nonce per address
    verr,          \* what Validate returned
    hashed,        \* the TransactionData that tx.Hash was last computed from
    tampers,       \* field assignments made to tx after its construction
    ctorPayload,   \* the payload argument the constructor was called with
    \* ---- one task assembly (miner/task.go) ----
    taskpc,        \* the position in applyTransactions
    coinbase,      \* seele.GetCoinbase()
    blockHeight,   \* the blockHeight argument
    candidates,    \* the txs argument
    idx,           \* the index of the candidate the loop is at
    pool,          \* the hashes of the transactions in seele.TxPool()
    commits,       \* how often statedb.Commit has been called
    statedb0,      \* the account state when applyTransactions was called
    applied,       \* the transactions seele.ApplyTransaction was called with, in order
    stillPending,  \* the candidates whose hash was in the pool when Validate ran
    taskErr        \* what applyTransactions returned

mineVars == <<task, assign, callerQuota, pc, nonce, block, abort, isNonceFound,
              received, sent, tried, inFlight, lateHashes, sends, stored>>

txVars == <<tx, txErr, verr, hashed, tampers, ctorPayload>>

taskVars == <<taskpc, coinbase, blockHeight, candidates, idx, pool, commits, statedb0,
              applied, stillPending, taskErr>>

notMineVars == <<txVars, taskVars, statedb>>

vars == <<mineVars, txVars, taskVars, statedb>>

\* ------------------------------------------------------------------ bounds

\* Threads of one mining round.
NumWorkers == 2
\* The largest nonce: the model's uint64 is 0..MaxNonce, wrapping at MaxNonce + 1.
MaxNonce == 3
\* The hashes started after abort that are counted (lateHashes stops there).
MaxLate == 2

Workers == 1..NumWorkers
Nonces == 0..MaxNonce
NonceMod == MaxNonce + 1

\* A pointer is a sequence: empty for nil, else the one value it points to.
Nil == <<>>
Ref(v) == <<v>>
Deref(p) == p[1]

\* ------------------------------------------------------- hashes and targets

\* A hash is two bytes; a byte of the model is 0..ByteBase-1.
ByteBase == 4
HashSpace == ByteBase * ByteBase

\* common.Hash.Bytes() of the hash whose big-endian value is v.
HashBytes(v) == <<v \div ByteBase, v % ByteBase>>

\* big.Int.SetBytes: the bytes read as a big-endian unsigned integer.
RECURSIVE SetBytes(_)
SetBytes(bytes) ==
    IF bytes = <<>> THEN 0
    ELSE SetBytes(SubSeq(bytes, 1, Len(bytes) - 1)) * ByteBase + bytes[Len(bytes)]

\* BlockHeader.Hash(): a deterministic hash of every header field, the nonce included.
HeaderHash(header) ==
    HashBytes((header.Nonce * 5 + header.Height * 3 + header.StateHash + 1) % HashSpace)

\* pow.GetMiningTarget: the largest acceptable hash, decreasing in the difficulty.
GetMiningTarget(difficulty) == (HashSpace - 1) \div difficulty

\* The difficulties of the model's header templates.
Difficulties == {3, 8}

\* types.NewBlock(header, txs): a block holding its own copy of the header.
NewBlock(header, txs) ==
    [Header |-> header, HeaderHash |-> HashBytes(0), Transactions |-> txs]

\* Task.generateBlock
generateBlock(t) == NewBlock(t.header, t.txs)

\* ------------------------------------------------------------ transactions

\* Addresses: the zero address common.Address{}, two accounts and the coinbase.
ZeroAddr == "zero"
A1 == "a1"
A2 == "a2"
CB == "coinbase"
Addrs == {ZeroAddr, A1, A2, CB}

\* defaultMaxPayloadSize, MaxPayloadSize
defaultMaxPayloadSize == 32 * 1024
MaxPayloadSize == defaultMaxPayloadSize

\* A byte slice is its length and what its bytes are (a content tag).
Bytes(len, tag) == [len |-> len, tag |-> IF len = 0 THEN 0 ELSE tag]
EmptyPayload == Bytes(0, 0)
Payloads ==
    {Bytes(l, t) : l \in {0, MaxPayloadSize, MaxPayloadSize + 1}, t \in 1..2}

\* The largest amount, balance and account nonce of the model.
MaxAmount == 2
MaxAccountNonce == 1
\* The field assignments made to one transaction after its construction.
MaxTampers == 2

\* time.Now().UnixNano() of the model's clock.
Now == 7

\* crypto.MustHash(txData): the hash of the canonical encoding of the six fields;
\* distinct data have distinct hashes.
MustHash(data) ==
    <<"h", data.From, data.To, data.Amount, data.AccountNonce, data.Timestamp,
      data.Payload>>

\* A private key is named by the address it belongs to.
Keys == {A1, A2}

\* crypto.NewSignature(privKey, hashBytes)
NewSignature(privKey, hashBytes) == [Signer |-> privKey, Msg |-> hashBytes]

\* &crypto.Signature{}: the empty signature.
EmptySignature == [Signer |-> "nobody", Msg |-> <<>>]

\* Signature.Verify(address, hashBytes)
Verify(sig, address, hashBytes) == sig.Signer = address /\ sig.Msg = hashBytes

\* Validate's errors; ErrNone is the nil error.
ErrNone == "nil"
ErrAmountNegative == "amount is negative"
ErrAmountNil == "amount is null"
ErrBalanceNotEnough == "balance not enough"
ErrHashMismatch == "hash mismatch"
ErrNonceTooLow == "nonce too low"
ErrPayloadOversized == "oversized payload"
ErrSigInvalid == "signature is invalid"
ErrSigMissing == "signature missing"
Panic == "panic"

\* A newTx that turns away a payload of exactly MaxPayloadSize bytes.
newTxAtLimit(from, to, amount, accountNonce, payload) ==
    IF amount = Nil THEN <<Nil, Panic>>
    ELSE IF Deref(amount) < 0 THEN <<Nil, Panic>>
    ELSE IF payload.len >= MaxPayloadSize THEN <<Nil, ErrPayloadOversized>>
    ELSE LET txData == [From |-> from, To |-> to, Amount |-> amount,
                        Timestamp |-> Now, AccountNonce |-> accountNonce,
                        Payload |-> IF payload.len > 0 THEN payload ELSE EmptyPayload]
         IN  <<Ref([Hash |-> MustHash(txData), Data |-> Ref(txData), Signature |-> Nil]),
               ErrNone>>

\* newTx: <<the transaction or nil, the error>>; a nil or negative amount panics.
newTx(from, to, amount, accountNonce, payload) ==
    IF amount = Nil THEN <<Nil, Panic>>
    ELSE IF Deref(amount) < 0 THEN <<Nil, Panic>>
    ELSE IF payload.len > MaxPayloadSize THEN <<Nil, ErrPayloadOversized>>
    ELSE LET txData == [From |-> from, To |-> to, Amount |-> amount,
                        Timestamp |-> Now, AccountNonce |-> accountNonce,
                        Payload |-> IF payload.len > 0 THEN payload ELSE EmptyPayload]
         IN  <<Ref([Hash |-> MustHash(txData), Data |-> Ref(txData), Signature |-> Nil]),
               ErrNone>>

\* NewTransaction(from, to, amount, nonce)
NewTransaction(from, to, amount, accountNonce) ==
    newTx(from, Ref(to), amount, accountNonce, EmptyPayload)[1]

\* NewContractTransaction(from, amount, nonce, code)
NewContractTransaction(from, amount, accountNonce, code) ==
    newTx(from, Nil, amount, accountNonce, code)

\* NewMessageTransaction(from, to, amount, nonce, msg)
NewMessageTransaction(from, to, amount, accountNonce, msg) ==
    newTx(from, Ref(to), amount, accountNonce, msg)

\* A Sign that signs the Hash the transaction already carries.
SignStoredHash(t, privKey) ==
    [t EXCEPT !.Signature = Ref(NewSignature(privKey, t.Hash))]

\* Transaction.Sign on the transaction t
Sign(t, privKey) ==
    LET hash == MustHash(Deref(t.Data))
    IN  [t EXCEPT !.Hash = hash, !.Signature = Ref(NewSignature(privKey, hash))]

\* A broken ending of Validate: the signature is verified against the stored Hash
\* and the stored Hash is never compared with the data.
ValidateStoredHash(t) ==
    IF ~Verify(Deref(t.Signature), Deref(t.Data).From, t.Hash) THEN ErrSigInvalid
    ELSE ErrNone

\* The hash check and the signature check that end Validate.
ValidateHashAndSig(t) ==
    LET txDataHash == MustHash(Deref(t.Data))
    IN  IF txDataHash # t.Hash THEN ErrHashMismatch
        ELSE IF ~Verify(Deref(t.Signature), Deref(t.Data).From, txDataHash)
             THEN ErrSigInvalid
        ELSE ErrNone

\* A broken middle of Validate: the nonce is checked before the balance.
ValidateNonceFirst(t, db) ==
    LET data == Deref(t.Data)
    IN  IF data.AccountNonce < db.nonce[data.From] THEN ErrNonceTooLow
        ELSE IF Deref(data.Amount) > db.balance[data.From] THEN ErrBalanceNotEnough
        ELSE IF data.Payload.len > MaxPayloadSize THEN ErrPayloadOversized
        ELSE IF t.Signature = Nil THEN ErrSigMissing
        ELSE ValidateHashAndSig(t)

\* The checks of Validate against the account state, the payload size and the
\* presence of a signature, then its ending.
ValidateAccount(t, db) ==
    LET data == Deref(t.Data)
    IN  IF Deref(data.Amount) > db.balance[data.From] THEN ErrBalanceNotEnough
        ELSE IF data.AccountNonce < db.nonce[data.From] THEN ErrNonceTooLow
        ELSE IF data.Payload.len > MaxPayloadSize THEN ErrPayloadOversized
        ELSE IF t.Signature = Nil THEN ErrSigMissing
        ELSE ValidateHashAndSig(t)

\* Transaction.Validate on the transaction t
Validate(t, db) ==
    IF t.Data = Nil THEN ErrAmountNil
    ELSE IF Deref(t.Data).Amount = Nil THEN ErrAmountNil
    ELSE IF Deref(Deref(t.Data).Amount) < 0 THEN ErrAmountNegative
    ELSE ValidateAccount(t, db)

\* The account states of the transaction's sender that Validate is run against.
TxStates ==
    { [balance |-> [a \in Addrs |-> IF a = A1 THEN b ELSE 0],
       nonce |-> [a \in Addrs |-> IF a = A1 THEN n ELSE 0]] :
         b \in 0..MaxAmount, n \in 0..MaxAccountNonce }

\* Amount arguments and fields: nil, a negative amount, the amounts up to MaxAmount.
Amounts == {Nil, Ref(-1)} \cup {Ref(v) : v \in 0..MaxAmount}

TxIdle ==
    /\ tx = Nil
    /\ txErr = ErrNone
    /\ verr = "none"
    /\ hashed = Nil
    /\ tampers = 0
    /\ ctorPayload = EmptyPayload

\* No mining round is running.
MineIdle ==
    /\ task = [header |-> [Height |-> 1, Difficulty |-> 1, StateHash |-> 0, Nonce |-> 0],
               txs |-> <<>>]
    /\ assign = [w \in Workers |-> [seed |-> 0, min |-> 0, max |-> 0]]
    /\ callerQuota = 0
    /\ pc = [w \in Workers |-> "done"]
    /\ nonce = [w \in Workers |-> 0]
    /\ block = [w \in Workers |-> generateBlock(task)]
    /\ abort = FALSE
    /\ isNonceFound = 0
    /\ received = <<>>
    /\ sent = [w \in Workers |-> "none"]
    /\ tried = [w \in Workers |-> {}]
    /\ inFlight = [w \in Workers |-> FALSE]
    /\ lateHashes = [w \in Workers |-> 0]
    /\ sends = [w \in Workers |-> 0]
    /\ stored = {}

\* No task is being assembled.
TaskIdle ==
    /\ taskpc = "idle"
    /\ coinbase = CB
    /\ blockHeight = 1
    /\ candidates = <<>>
    /\ idx = 0
    /\ pool = {}
    /\ commits = 0
    /\ statedb0 = statedb
    /\ applied = <<>>
    /\ stillPending = {}
    /\ taskErr = "none"

InitTx ==
    /\ statedb \in TxStates
    /\ TxIdle
    /\ MineIdle
    /\ TaskIdle

\* One of the three constructors is called.
Construct ==
    /\ tx = Nil /\ txErr = ErrNone
    /\ \E to \in {Nil, Ref(A2)}, amount \in Amounts, n \in 0..MaxAccountNonce,
          payload \in Payloads \cup {EmptyPayload} :
          LET r == IF to = Nil THEN NewContractTransaction(A1, amount, n, payload)
                   ELSE NewMessageTransaction(A1, Deref(to), amount, n, payload)
          IN  /\ tx' = r[1]
              /\ txErr' = r[2]
              /\ hashed' = IF r[1] = Nil THEN Nil ELSE Deref(r[1]).Data
              /\ ctorPayload' = payload
    /\ UNCHANGED <<verr, tampers, statedb>>
    /\ UNCHANGED <<mineVars, taskVars>>

\* tx.Sign(privKey)
SignTx ==
    /\ tx # Nil /\ verr = "none"
    /\ Deref(tx).Data # Nil
    /\ Deref(Deref(tx).Data).Amount # Nil
    /\ \E k \in Keys : tx' = Ref(Sign(Deref(tx), k))
    /\ hashed' = Deref(tx).Data
    /\ UNCHANGED <<txErr, verr, tampers, ctorPayload, statedb>>
    /\ UNCHANGED <<mineVars, taskVars>>

\* The values a field assignment can give the transaction t.
Tampered(t) ==
    {[t EXCEPT !.Data = Nil]}
    \cup {[t EXCEPT !.Signature = s] : s \in {Nil, Ref(EmptySignature)}}
    \cup (IF t.Data = Nil THEN {}
          ELSE LET d == Deref(t.Data)
               IN  {[t EXCEPT !.Data = Ref([d EXCEPT !.Amount = a])] : a \in Amounts}
                   \cup {[t EXCEPT !.Data = Ref([d EXCEPT !.AccountNonce = n])] :
                            n \in 0..MaxAccountNonce}
                   \cup {[t EXCEPT !.Data = Ref([d EXCEPT !.Payload = p])] :
                            p \in Payloads \cup {EmptyPayload}})

\* A field of the transaction is assigned after construction.
Tamper ==
    /\ tx # Nil /\ verr = "none"
    /\ tampers < MaxTampers
    /\ \E t \in Tampered(Deref(tx)) : t # Deref(tx) /\ tx' = Ref(t)
    /\ tampers' = tampers + 1
    /\ UNCHANGED <<txErr, verr, hashed, ctorPayload, statedb>>
    /\ UNCHANGED <<mineVars, taskVars>>

\* tx.Validate(statedb)
ValidateTx ==
    /\ tx # Nil /\ verr = "none"
    /\ verr' = Validate(Deref(tx), statedb)
    /\ UNCHANGED <<tx, txErr, hashed, tampers, ctorPayload, statedb>>
    /\ UNCHANGED <<mineVars, taskVars>>

NextTx ==
    \/ Construct
    \/ SignTx
    \/ Tamper
    \/ ValidateTx

SpecTx == InitTx /\ [][NextTx]_vars

\* ------------------------------------------------------ one mining round

\* uint64 arithmetic of the loop.
Inc(n) == (n + 1) % NonceMod
Dec(n) == (n + NonceMod - 1) % NonceMod

\* The header templates a round can be started on.
Headers == [Height : {1}, Difficulty : Difficulties, StateHash : {0}, Nonce : {0}]

\* The (seed, min, max) arguments: the threads of a round search consecutive
\* sub-ranges of the nonce space, from 0 on, and every seed lies in its sub-range.
Assignment == [seed : Nonces, min : Nonces, max : Nonces]
Assignments ==
    { a \in [Workers -> Assignment] :
        /\ \A w \in Workers : a[w].min <= a[w].seed /\ a[w].seed <= a[w].max
        /\ a[1].min = 0
        /\ \A w \in Workers : w + 1 \in Workers => a[w + 1].min = a[w].max + 1 }

\* The account state of an empty chain.
EmptyState == [balance |-> [a \in Addrs |-> 0], nonce |-> [a \in Addrs |-> 0]]

InitMine ==
    /\ task \in [header : Headers, txs : {<<>>}]
    /\ assign \in Assignments
    /\ callerQuota \in {0, 1, NumWorkers}
    /\ pc = [w \in Workers |-> "select"]
    /\ nonce = [w \in Workers |-> assign[w].seed]
    /\ block = [w \in Workers |-> generateBlock(task)]
    /\ abort = FALSE
    /\ isNonceFound = 0
    /\ received = <<>>
    /\ sent = [w \in Workers |-> "none"]
    /\ tried = [w \in Workers |-> {}]
    /\ inFlight = [w \in Workers |-> FALSE]
    /\ lateHashes = [w \in Workers |-> 0]
    /\ sends = [w \in Workers |-> 0]
    /\ stored = {}
    /\ TxIdle
    /\ statedb = EmptyState
    /\ TaskIdle

\* The Result of a successful search.
Found(w) == Ref([task |-> task, block |-> block[w]])

\* close(abort), by the caller of the round.
Abort ==
    /\ ~abort
    /\ abort' = TRUE
    /\ inFlight' = [w \in Workers |-> pc[w] = "default"]
    /\ UNCHANGED <<task, assign, callerQuota, pc, nonce, block, isNonceFound,
                   received, sent, tried, lateHashes, sends, stored>>
    /\ UNCHANGED notMineVars

\* An outer select that never looks at abort.
SelectDefault == "default"

\* The outer select: case <-abort is taken when abort is closed, default otherwise.
SelectCase == IF abort THEN "done" ELSE "default"

\* The outer select: case <-abort breaks the loop, default runs an iteration.
SelectAbort(w) ==
    /\ pc[w] = "select"
    /\ pc' = [pc EXCEPT ![w] = SelectCase]
    /\ UNCHANGED <<task, assign, callerQuota, nonce, block, abort, isNonceFound,
                   received, sent, tried, inFlight, lateHashes, sends, stored>>
    /\ UNCHANGED notMineVars

\* The nonce after an unsuccessful hash: wrap at max.
Wrapped(w) == IF nonce[w] = assign[w].max THEN assign[w].min ELSE nonce[w]

\* hashInt.Cmp(target) <= 0
IsFound(hashInt, target) == hashInt <= target

\* A Result block whose HeaderHash was never assigned.
FoundBlockNoHash(header, hash, b) == [b EXCEPT !.Header = header]

\* The block of a Result: the header that was hashed, and block.HeaderHash = hash.
FoundBlock(header, hash, b) == [b EXCEPT !.Header = header, !.HeaderHash = hash]

\* A flag check that never sees the flag.
FlagIgnored == FALSE

\* atomic.LoadInt32(isNonceFound) != 0
FlagSeen == isNonceFound # 0

\* The default case: flag check, hash, compare, advance.
Iterate(w) ==
    /\ pc[w] = "default"
    /\ IF FlagSeen
       THEN /\ pc' = [pc EXCEPT ![w] = "done"]
            /\ UNCHANGED <<nonce, block, tried, lateHashes>>
       ELSE LET header == [block[w].Header EXCEPT !.Nonce = nonce[w]]
                hash == HeaderHash(header)
                target == GetMiningTarget(header.Difficulty)
            IN  /\ tried' = [tried EXCEPT ![w] = @ \cup {nonce[w]}]
                /\ lateHashes' = [lateHashes EXCEPT ![w] =
                                     IF abort /\ @ < MaxLate THEN @ + 1 ELSE @]
                /\ IF IsFound(SetBytes(hash), target)
                   THEN /\ block' = [block EXCEPT ![w] = FoundBlock(header, hash, @)]
                        /\ pc' = [pc EXCEPT ![w] = "sendFound"]
                        /\ UNCHANGED nonce
                   ELSE /\ block' = [block EXCEPT ![w].Header = header]
                        /\ IF Wrapped(w) = Dec(assign[w].seed)
                           THEN /\ pc' = [pc EXCEPT ![w] = "sendNil"]
                                /\ nonce' = [nonce EXCEPT ![w] = Wrapped(w)]
                           ELSE /\ pc' = [pc EXCEPT ![w] = "select"]
                                /\ nonce' = [nonce EXCEPT ![w] = Inc(Wrapped(w))]
    /\ UNCHANGED <<task, assign, callerQuota, abort, isNonceFound, received, sent, inFlight,
                   sends, stored>>
    /\ UNCHANGED notMineVars

\* The caller is receiving from the result channel.
CallerReceives == Len(received) < callerQuota

\* case result <- found
SendFound(w) ==
    /\ pc[w] = "sendFound"
    /\ CallerReceives
    /\ received' = Append(received, Found(w))
    /\ sent' = [sent EXCEPT ![w] = "found"]
    /\ sends' = [sends EXCEPT ![w] = @ + 1]
    /\ pc' = [pc EXCEPT ![w] = "store"]
    /\ UNCHANGED <<task, assign, callerQuota, nonce, block, abort, isNonceFound, tried,
                   inFlight, lateHashes, stored>>
    /\ UNCHANGED notMineVars

\* atomic.StoreInt32(isNonceFound, 1), then break
StoreFound(w) ==
    /\ pc[w] = "store"
    /\ isNonceFound' = 1
    /\ stored' = stored \cup {w}
    /\ pc' = [pc EXCEPT ![w] = "done"]
    /\ UNCHANGED <<task, assign, callerQuota, nonce, block, abort, received, sent, tried,
                   inFlight, lateHashes, sends>>
    /\ UNCHANGED notMineVars

\* A send of nil after which the loop goes on.
SendNilAndGoOn(w) ==
    /\ pc[w] = "sendNil"
    /\ CallerReceives
    /\ received' = Append(received, Nil)
    /\ sent' = [sent EXCEPT ![w] = "nil"]
    /\ sends' = [sends EXCEPT ![w] = @ + 1]
    /\ pc' = [pc EXCEPT ![w] = "select"]
    /\ UNCHANGED <<task, assign, callerQuota, nonce, block, abort, isNonceFound, tried,
                   inFlight, lateHashes, stored>>
    /\ UNCHANGED notMineVars

\* case result <- nil, then break
SendNil(w) ==
    /\ pc[w] = "sendNil"
    /\ CallerReceives
    /\ received' = Append(received, Nil)
    /\ sent' = [sent EXCEPT ![w] = "nil"]
    /\ sends' = [sends EXCEPT ![w] = @ + 1]
    /\ pc' = [pc EXCEPT ![w] = "done"]
    /\ UNCHANGED <<task, assign, callerQuota, nonce, block, abort, isNonceFound, tried,
                   inFlight, lateHashes, stored>>
    /\ UNCHANGED notMineVars

\* An abandoned send after which the flag is stored all the same.
AbortSendAndStore(w) ==
    /\ pc[w] \in {"sendFound", "sendNil"}
    /\ abort
    /\ isNonceFound' = 1
    /\ stored' = stored \cup {w}
    /\ pc' = [pc EXCEPT ![w] = "done"]
    /\ UNCHANGED <<task, assign, callerQuota, nonce, block, abort, received, sent, tried,
                   inFlight, lateHashes, sends>>
    /\ UNCHANGED notMineVars

\* case <-abort of either inner select, then break
AbortSend(w) ==
    /\ pc[w] \in {"sendFound", "sendNil"}
    /\ abort
    /\ pc' = [pc EXCEPT ![w] = "done"]
    /\ UNCHANGED <<task, assign, callerQuota, nonce, block, abort, isNonceFound,
                   received, sent, tried, inFlight, lateHashes, sends, stored>>
    /\ UNCHANGED notMineVars

\* One step of thread w of StartMining.
StartMining(w) ==
    \/ SelectAbort(w)
    \/ Iterate(w)
    \/ SendFound(w)
    \/ StoreFound(w)
    \/ SendNil(w)
    \/ AbortSend(w)

NextMine ==
    \/ Abort
    \/ \E w \in Workers : StartMining(w)

SpecMine == InitMine /\ [][NextMine]_vars

\* The threads are scheduled fairly and a receiving caller takes what is offered;
\* nothing obliges the caller to close abort.
LiveMine == SpecMine /\ \A w \in Workers : WF_vars(StartMining(w))

\* ------------------------------------------------------- one task assembly

\* Candidate transactions of one assembly.
MaxTxs == 2

\* pow.GetReward(blockHeight): the reward of a block, a pure function of its height.
GetReward(height) == IF height <= 1 THEN 2 ELSE 1

\* Statedb.GetOrNewStateObject(addr).AddAmount(amount)
AddAmount(db, addr, amount) == [db EXCEPT !.balance[addr] = @ + amount]

\* Blockchain.ApplyTransaction: the transfer and the sender's nonce increment.
ApplyTransaction(t, db) ==
    LET data == Deref(t.Data)
        amount == Deref(data.Amount)
        debited == [db EXCEPT !.balance[data.From] = @ - amount,
                              !.nonce[data.From] = data.AccountNonce + 1]
    IN  IF data.To = Nil THEN debited ELSE AddAmount(debited, Deref(data.To), amount)

\* Statedb.Commit: the root hash of the account state.
RECURSIVE Digest(_, _)
Digest(db, addrs) ==
    IF addrs = {} THEN 0
    ELSE LET a == CHOOSE x \in addrs : TRUE
         IN  (db.balance[a] * 3 + db.nonce[a] + 7 * Digest(db, addrs \ {a})) % HashSpace
Commit(db) == Digest(db, Addrs)

\* A reward transaction that carries no signature.
UnsignedRewardTransaction(cb, height) ==
    Deref(NewTransaction(ZeroAddr, cb, Ref(GetReward(height)), 0))

\* The reward transaction: from the zero address to the coinbase, nonce 0, with
\* the empty signature.
RewardTransaction(cb, height) ==
    [Deref(NewTransaction(ZeroAddr, cb, Ref(GetReward(height)), 0))
        EXCEPT !.Signature = Ref(EmptySignature)]

\* A reward that is transferred from the zero address instead of minted.
TransferReward(db, cb, rewardValue) ==
    AddAmount(AddAmount(db, ZeroAddr, 0 - rewardValue), cb, rewardValue)

\* The reward is added to the coinbase account.
CreditReward(db, cb, rewardValue) == AddAmount(db, cb, rewardValue)

\* The transactions the pending pool can hand to an assembly: signed transfers to
\* A2, the same unsigned, and a copy of a reward transaction.
CandidateAmounts == {1, 2}
CandidateNonces == {0, 1}
CandidateTxs ==
    LET built == {Deref(NewTransaction(from, A2, Ref(a), n)) :
                     from \in {A1, CB}, a \in CandidateAmounts, n \in CandidateNonces}
    IN  built
        \cup {Sign(t, Deref(t.Data).From) : t \in built}
        \cup {[Deref(NewTransaction(ZeroAddr, CB, Ref(0), 0))
                 EXCEPT !.Signature = Ref(EmptySignature)]}

\* The sequences of at most n elements of S.
SeqsUpTo(S, n) == UNION {[1..k -> S] : k \in 0..n}

\* The account states an assembly starts from.
TaskStates ==
    { [balance |-> [a \in Addrs |-> IF a = A1 THEN b ELSE 0],
       nonce |-> [a \in Addrs |-> 0]] : b \in 0..MaxAmount }

InitTask ==
    /\ TxIdle
    /\ coinbase \in {CB, A1}
    /\ blockHeight \in {1, 2}
    /\ candidates \in SeqsUpTo(CandidateTxs, MaxTxs)
    /\ statedb \in TaskStates
    /\ statedb0 = statedb
    /\ task = [header |-> [Height |-> blockHeight, Difficulty |-> 1, StateHash |-> 0,
                           Nonce |-> 0],
               txs |-> <<>>]
    /\ pool = {candidates[i].Hash : i \in DOMAIN candidates}
    /\ taskpc = "reward"
    /\ idx = 0
    /\ commits = 0
    /\ applied = <<>>
    /\ stillPending = {}
    /\ taskErr = "none"
    /\ assign = [w \in Workers |-> [seed |-> 0, min |-> 0, max |-> 0]]
    /\ callerQuota = 0
    /\ pc = [w \in Workers |-> "done"]
    /\ nonce = [w \in Workers |-> 0]
    /\ block = [w \in Workers |-> generateBlock(task)]
    /\ abort = FALSE
    /\ isNonceFound = 0
    /\ received = <<>>
    /\ sent = [w \in Workers |-> "none"]
    /\ tried = [w \in Workers |-> {}]
    /\ inFlight = [w \in Workers |-> FALSE]
    /\ lateHashes = [w \in Workers |-> 0]
    /\ sends = [w \in Workers |-> 0]
    /\ stored = {}

notTaskVars == <<assign, callerQuota, pc, nonce, block, abort, isNonceFound, received,
                 sent, tried, inFlight, lateHashes, sends, stored, txVars>>

\* seele.TxPool().RemoveTransaction(hash)
RemoveTransaction(p, hash) == p \ {hash}

\* A pool the candidate is left in until after its validation.
PendingKept(p, t) == p

\* The pool as Validate finds it: the candidate has been removed from it.
Pending(p, t) == RemoveTransaction(p, t.Hash)

\* A loop that takes every candidate, whatever Validate returned.
AcceptedAlways(err) == TRUE

\* The candidate goes on to ApplyTransaction unless Validate returned an error.
Accepted(err) == err = ErrNone

\* An accepted transaction put right behind the reward instead of at the end.
InsertTx(txs, t) == IF txs = <<>> THEN <<t>> ELSE <<txs[1], t>> \o Tail(txs)

\* task.txs = append(task.txs, tx)
AppendTx(txs, t) == Append(txs, t)

\* A header that is left without the committed root.
KeepStateHash(header, root) == header

\* task.header.StateHash = root
WithStateHash(header, root) == [header EXCEPT !.StateHash = root]

\* applyTransactions up to its loop: the reward transaction and the reward.
ApplyReward ==
    /\ taskpc = "reward"
    /\ statedb' = CreditReward(statedb, coinbase, GetReward(blockHeight))
    /\ task' = [task EXCEPT !.txs = AppendTx(@, RewardTransaction(coinbase, blockHeight))]
    /\ taskpc' = "loop"
    /\ idx' = 1
    /\ UNCHANGED <<coinbase, blockHeight, candidates, pool, commits, statedb0, applied,
                   stillPending, taskErr>>
    /\ UNCHANGED notTaskVars

\* One iteration of the loop over txs.
ApplyCandidate ==
    /\ taskpc = "loop"
    /\ idx <= Len(candidates)
    /\ LET t == candidates[idx]
           p == Pending(pool, t)
           err == Validate(t, statedb)
       IN  /\ pool' = RemoveTransaction(pool, t.Hash)
           /\ stillPending' = IF t.Hash \in p THEN stillPending \cup {idx}
                               ELSE stillPending
           /\ IF ~Accepted(err)
              THEN UNCHANGED <<statedb, task, applied>>
              ELSE /\ statedb' = ApplyTransaction(t, statedb)
                   /\ applied' = Append(applied, t)
                   /\ task' = [task EXCEPT !.txs = AppendTx(@, t)]
    /\ idx' = idx + 1
    /\ UNCHANGED <<taskpc, coinbase, blockHeight, candidates, commits, statedb0, taskErr>>
    /\ UNCHANGED notTaskVars

\* applyTransactions after its loop: the commit, the header's state root, the return.
CommitState ==
    /\ taskpc = "loop"
    /\ idx > Len(candidates)
    /\ task' = [task EXCEPT !.header = WithStateHash(@, Commit(statedb))]
    /\ commits' = commits + 1
    /\ taskErr' = ErrNone
    /\ taskpc' = "done"
    /\ UNCHANGED <<statedb, coinbase, blockHeight, candidates, idx, pool, statedb0,
                   applied, stillPending>>
    /\ UNCHANGED notTaskVars

NextTask ==
    \/ ApplyReward
    \/ ApplyCandidate
    \/ CommitState

SpecTask == InitTask /\ [][NextTask]_vars

\* ------------------------------------------------- claims: the mining round

\* No nonce of the nonce space gives the task's header a hash within the target.
Unreachable ==
    \A n \in Nonces :
        ~IsFound(SetBytes(HeaderHash([task.header EXCEPT !.Nonce = n])),
                 GetMiningTarget(task.header.Difficulty))

AllStopped == \A w \in Workers : pc[w] = "done"
AllExhausted == \A w \in Workers : pc[w] = "done" /\ sent[w] = "nil"

\* C1: with an unreachable target, a caller that receives every Result and no
\* cancellation, every thread eventually sends nil and stops.
C1_UnreachableRoundCompletes ==
    (Unreachable /\ callerQuota = NumWorkers) => (<>abort \/ <>AllExhausted)

\* C2: every non-nil Result received carries a block whose header hash is within
\* the target, whose HeaderHash is the hash of its own header, and the round's task.
C2_FoundResultIsValid ==
    \A i \in DOMAIN received :
        received[i] # Nil =>
            LET r == Deref(received[i])
            IN  /\ SetBytes(HeaderHash(r.block.Header))
                      <= GetMiningTarget(r.block.Header.Difficulty)
                /\ r.block.HeaderHash = HeaderHash(r.block.Header)
                /\ r.task = task

C2_Witness ==
    \E i \in DOMAIN received : received[i] # Nil /\ Deref(received[i]).block.Header.Nonce > 0

\* C3: at most one non-nil Result goes through the result channel in a round.
C3_AtMostOneFound ==
    Cardinality({i \in DOMAIN received : received[i] # Nil}) <= 1

\* The steps thread w is from the end of StartMining at most, once abort is closed.
StepsLeft(w) ==
    CASE pc[w] = "done" -> 0
      [] pc[w] \in {"select", "sendNil", "store"} -> 1
      [] pc[w] = "sendFound" -> 2
      [] pc[w] = "default" -> 3

\* The parts of C4: once abort is closed a thread starts no hash beyond the
\* iteration it was in, and every thread that has not stopped, one blocked in a
\* send included, can take a step on its own whoever receives, each step bringing
\* it nearer its end.
C4_NoLateHash ==
    \A w \in Workers : lateHashes[w] <= (IF inFlight[w] THEN 1 ELSE 0)

C4_Released ==
    abort => \A w \in Workers : pc[w] # "done" => ENABLED StartMining(w)

C4_Nearer ==
    abort => \A w \in Workers : pc'[w] # pc[w] => StepsLeft(w)' < StepsLeft(w)

\* C4: once abort is closed, no late hash, every thread released, every step nearer.
C4_AbortStopsEveryWorker == []C4_NoLateHash /\ []C4_Released /\ [][C4_Nearer]_vars

C4_Witness ==
    /\ abort
    /\ callerQuota = 0
    /\ \E w \in Workers :
          /\ pc[w] = "done"
          /\ lateHashes[w] = 1
          /\ sent[w] = "none"
          /\ block[w].HeaderHash = HeaderHash(block[w].Header)
          /\ IsFound(SetBytes(block[w].HeaderHash),
                     GetMiningTarget(block[w].Header.Difficulty))

\* C5: a thread sends nil only after hashing every nonce of [min, max].
C5_NilOnlyAfterWholeRange ==
    \A w \in Workers :
        (pc[w] = "sendNil" \/ sent[w] = "nil") =>
            \A n \in assign[w].min..assign[w].max : n \in tried[w]

\* The caller has taken the one Result it receives in this round.
RoundOver == callerQuota = 1 /\ Len(received) = 1

\* C6: once the caller has taken its one Result, no thread stays blocked in a send
\* on the result channel: each such thread eventually stops.
C6_NoWorkerLeftBlocked ==
    \A w \in Workers :
        []((RoundOver /\ pc[w] \in {"sendFound", "sendNil"}) => <>(pc[w] = "done"))

\* --------------------------------------------------- claims: transactions

\* The k-th check of the documented order fails on transaction t in state db.
Fails(k, t, db) ==
    CASE k = 1 -> t.Data = Nil \/ Deref(t.Data).Amount = Nil
      [] k = 2 -> t.Data # Nil /\ Deref(t.Data).Amount # Nil
                    /\ Deref(Deref(t.Data).Amount) < 0
      [] k = 3 -> t.Data # Nil /\ Deref(t.Data).Amount # Nil
                    /\ Deref(Deref(t.Data).Amount) > db.balance[Deref(t.Data).From]
      [] k = 4 -> t.Data # Nil
                    /\ Deref(t.Data).AccountNonce < db.nonce[Deref(t.Data).From]
      [] k = 5 -> t.Data # Nil /\ Deref(t.Data).Payload.len > MaxPayloadSize
      [] k = 6 -> t.Signature = Nil
      [] k = 7 -> t.Data # Nil /\ MustHash(Deref(t.Data)) # t.Hash
      [] k = 8 -> t.Data # Nil /\ t.Signature # Nil
                    /\ ~Verify(Deref(t.Signature), Deref(t.Data).From,
                               MustHash(Deref(t.Data)))

\* The checks that fail, and the error kind of each check.
Failing(t, db) == {k \in 1..8 : Fails(k, t, db)}
ErrorOf ==
    <<ErrAmountNil, ErrAmountNegative, ErrBalanceNotEnough, ErrNonceTooLow,
      ErrPayloadOversized, ErrSigMissing, ErrHashMismatch, ErrSigInvalid>>

\* C7: Validate returns the error of the earliest failing check of the order
\* AmountNil, AmountNegative, BalanceInsufficient, NonceTooLow, PayloadOversized,
\* SignatureMissing, HashMismatch, SignatureInvalid, and nil when none fails.
C7_ValidateFirstFailing ==
    verr # "none" =>
        LET F == Failing(Deref(tx), statedb)
        IN  IF F = {} THEN verr = ErrNone
            ELSE verr = ErrorOf[CHOOSE k \in F : \A j \in F : k <= j]

C7_Witness ==
    /\ verr = ErrBalanceNotEnough
    /\ {3, 4, 5, 6, 7} \subseteq Failing(Deref(tx), statedb)

\* The payload of tx is not the payload its Hash was computed from.
PayloadChangedAfterHash ==
    /\ tx # Nil /\ Deref(tx).Data # Nil /\ hashed # Nil
    /\ Deref(Deref(tx).Data).Payload # Deref(hashed).Payload

\* C8: a signed transaction that passes the first six checks and whose Payload
\* was changed after its Hash was computed fails Validate with HashMismatch.
C8_PayloadMutationIsHashMismatch ==
    (/\ verr # "none"
     /\ PayloadChangedAfterHash
     /\ Failing(Deref(tx), statedb) \cap 1..6 = {}) => verr = ErrHashMismatch

C8_Witness ==
    /\ verr = ErrHashMismatch
    /\ PayloadChangedAfterHash
    /\ Deref(tx).Hash = MustHash(Deref(hashed))
    /\ Verify(Deref(Deref(tx).Signature), Deref(Deref(tx).Data).From, Deref(tx).Hash)

\* --------------------------------------------------- claims: task assembly

\* t is a reward transaction: sent by the zero address under the empty signature.
IsRewardTx(t) ==
    /\ t.Data # Nil
    /\ Deref(t.Data).From = ZeroAddr
    /\ t.Signature = Ref(EmptySignature)

\* C9: when applyTransactions has returned, the first transaction of the task is
\* the reward transaction (zero address to coinbase, reward(height), nonce 0, the
\* empty signature), no other transaction of the task is a reward transaction,
\* and without candidates the task holds the reward transaction alone.
C9_RewardTxFirstAndOnly ==
    taskpc = "done" =>
        /\ Len(task.txs) >= 1
        /\ IsRewardTx(task.txs[1])
        /\ Deref(task.txs[1].Data).To = Ref(coinbase)
        /\ Deref(task.txs[1].Data).Amount = Ref(GetReward(blockHeight))
        /\ Deref(task.txs[1].Data).AccountNonce = 0
        /\ task.txs[1].Hash = MustHash(Deref(task.txs[1].Data))
        /\ Cardinality({i \in DOMAIN task.txs : IsRewardTx(task.txs[i])}) = 1
        /\ candidates = <<>> => Len(task.txs) = 1

C9_Witness ==
    /\ taskpc = "done"
    /\ Len(task.txs) = 2
    /\ \E i \in DOMAIN candidates : IsRewardTx(candidates[i])

\* The sum of all balances.
RECURSIVE SumOver(_, _)
SumOver(balance, addrs) ==
    IF addrs = {} THEN 0
    ELSE LET a == CHOOSE x \in addrs : TRUE
         IN  balance[a] + SumOver(balance, addrs \ {a})
TotalBalance(db) == SumOver(db.balance, Addrs)

\* C10: the reward step adds exactly reward(height) to the coinbase balance and
\* changes nothing else of the account state; without candidates the sum of all
\* balances has grown by exactly reward(height) when applyTransactions returns.
C10_RewardIsMinted ==
    /\ (taskpc = "loop" /\ idx = 1) =>
          /\ statedb.balance =
                [statedb0.balance EXCEPT ![coinbase] = @ + GetReward(blockHeight)]
          /\ statedb.nonce = statedb0.nonce
    /\ (taskpc = "done" /\ candidates = <<>>) =>
          TotalBalance(statedb) = TotalBalance(statedb0) + GetReward(blockHeight)

C10_Witness ==
    /\ taskpc = "done"
    /\ candidates = <<>>
    /\ statedb.balance[coinbase] = statedb0.balance[coinbase] + 2
    /\ statedb0.balance[coinbase] > 0

\* The loop stands at a candidate that Validate rejects.
AtFailingCandidate ==
    /\ taskpc = "loop"
    /\ idx <= Len(candidates)
    /\ Validate(candidates[idx], statedb) # ErrNone

\* C11: the step of a candidate that fails Validate changes neither the account
\* state nor the task (header and transactions), calls ApplyTransaction for
\* nothing, and moves the loop to the next candidate; applyTransactions gets to
\* the end of the candidates and returns nil.
C11_FailedCandidateHasNoEffect ==
    /\ [][AtFailingCandidate =>
             /\ statedb' = statedb
             /\ task' = task
             /\ applied' = applied
             /\ commits' = commits
             /\ taskpc' = "loop"
             /\ idx' = idx + 1]_vars
    /\ [](taskpc = "done" => (taskErr = ErrNone /\ idx = Len(candidates) + 1))

C11_Witness ==
    /\ taskpc = "done"
    /\ taskErr = ErrNone
    /\ Len(candidates) = 2
    /\ candidates[1] # candidates[2]
    /\ applied = <<candidates[2]>>

\* C12: no candidate is in the pool when Validate runs on it, the candidates the
\* loop has been through, accepted or not, are out of the pool and stay out, and
\* no candidate is in the pool when applyTransactions has returned.
C12_CandidatesLeaveThePool ==
    /\ stillPending = {}
    /\ \A i \in 1..(idx - 1) : candidates[i].Hash \notin pool
    /\ taskpc = "done" => \A i \in DOMAIN candidates : candidates[i].Hash \notin pool

C12_Witness ==
    /\ taskpc = "loop"
    /\ idx = 2
    /\ applied = <<>>
    /\ candidates[1].Hash \notin pool
    /\ pool # {}

\* The candidates from the i-th on that pass Validate, each validated against the
\* state the accepted ones before it have left.
RECURSIVE AcceptedFrom(_, _, _)
AcceptedFrom(i, db, acc) ==
    IF i > Len(candidates) THEN acc
    ELSE LET t == candidates[i]
         IN  IF Validate(t, db) = ErrNone
             THEN AcceptedFrom(i + 1, ApplyTransaction(t, db), Append(acc, t))
             ELSE AcceptedFrom(i + 1, db, acc)

\* C15: when applyTransactions has returned, the transactions after the reward
\* transaction are the candidates that passed Validate, in the order of the
\* candidates, each validated against the state after the reward and after the
\* accepted candidates before it.
C15_AcceptedInCandidateOrder ==
    taskpc = "done" =>
        /\ Len(task.txs) >= 1
        /\ Tail(task.txs) =
              AcceptedFrom(1, AddAmount(statedb0, coinbase, GetReward(blockHeight)), <<>>)

C15_Witness ==
    /\ taskpc = "done"
    /\ Len(task.txs) = 3
    /\ task.txs[2] # task.txs[3]
    /\ Validate(task.txs[2], statedb0) # ErrNone
    /\ Validate(task.txs[3], statedb0) # ErrNone

\* C18: the account state is committed exactly once, when the reward and every
\* candidate have been through, the header's state root is the root of the state
\* as it is when applyTransactions has returned, and nothing is committed before.
C18_CommittedOnceAtTheEnd ==
    /\ commits = (IF taskpc = "done" THEN 1 ELSE 0)
    /\ taskpc = "done" =>
          /\ idx = Len(candidates) + 1
          /\ Len(task.txs) = 1 + Len(applied)
          /\ task.header.StateHash = Commit(statedb)
    /\ taskpc # "done" => task.header.StateHash = 0

C18_Witness ==
    /\ taskpc = "done"
    /\ commits = 1
    /\ Len(applied) >= 1
    /\ task.header.StateHash # 0
    /\ task.header.StateHash #
          Commit(AddAmount(statedb0, coinbase, GetReward(blockHeight)))

\* ------------------------------------------- claims: hash and payload size

\* The transaction carries a signature that Sign has made.
Signed ==
    /\ tx # Nil
    /\ Deref(tx).Signature \notin {Nil, Ref(EmptySignature)}

\* C13: the Hash of a transaction is the content hash of the Data it had when it
\* was last constructed or signed, whatever was assigned before; a signature made
\* by Sign is over that Hash, and a transaction no field of which was assigned
\* since its construction carries the hash of its Data.
C13_SignRehashesCurrentData ==
    tx # Nil =>
        /\ hashed # Nil
        /\ Deref(tx).Hash = MustHash(Deref(hashed))
        /\ Signed => Deref(Deref(tx).Signature).Msg = Deref(tx).Hash
        /\ tampers = 0 => Deref(tx).Hash = MustHash(Deref(Deref(tx).Data))

C13_Witness ==
    /\ Signed
    /\ tampers >= 1
    /\ Deref(tx).Data = hashed
    /\ Deref(hashed).Payload.len = MaxPayloadSize + 1
    /\ Deref(tx).Hash = MustHash(Deref(Deref(tx).Data))

\* The checks of Validate that come before the payload size pass.
PassesEarlierChecks(t, db) ==
    /\ t.Data # Nil
    /\ Deref(t.Data).Amount # Nil
    /\ Deref(Deref(t.Data).Amount) >= 0
    /\ Deref(Deref(t.Data).Amount) <= db.balance[Deref(t.Data).From]
    /\ Deref(t.Data).AccountNonce >= db.nonce[Deref(t.Data).From]

\* C14: a constructor called with a valid amount and a payload of exactly
\* MaxPayloadSize bytes returns a transaction and no error, called with
\* MaxPayloadSize + 1 bytes it returns no transaction and ErrPayloadOversized;
\* Validate, when its earlier checks pass, returns ErrPayloadOversized for
\* MaxPayloadSize + 1 bytes and does not for MaxPayloadSize bytes.
C14_PayloadLimitIsInclusive ==
    /\ ((tx # Nil \/ txErr # ErrNone) /\ txErr # Panic) =>
          /\ ctorPayload.len = MaxPayloadSize => (tx # Nil /\ txErr = ErrNone)
          /\ ctorPayload.len = MaxPayloadSize + 1 =>
                (tx = Nil /\ txErr = ErrPayloadOversized)
    /\ (verr # "none" /\ PassesEarlierChecks(Deref(tx), statedb)) =>
          LET n == Deref(Deref(tx).Data).Payload.len
          IN  /\ n = MaxPayloadSize + 1 => verr = ErrPayloadOversized
              /\ n = MaxPayloadSize => verr # ErrPayloadOversized

C14_Witness ==
    /\ ctorPayload.len = MaxPayloadSize
    /\ txErr = ErrNone
    /\ verr = ErrPayloadOversized

\* ------------------------------- claims: the flag, the range and the sends

\* C16: isNonceFound is 0 or 1; a thread stores it only after the result channel
\* has taken its non-nil Result, so a set flag means a non-nil Result was
\* received; no thread that sent nil, was cancelled or gave up its send stores
\* it, and once a thread has stored it the flag stays set.
C16_FlagOnlyAfterDeliveredFind ==
    /\ isNonceFound \in {0, 1}
    /\ \A w \in stored : sent[w] = "found" /\ sends[w] = 1
    /\ isNonceFound = 1 <=> stored # {}
    /\ isNonceFound = 1 => \E i \in DOMAIN received : received[i] # Nil
    /\ \A w \in Workers : (pc[w] = "done" /\ sent[w] = "found") => w \in stored

C16_Witness ==
    /\ isNonceFound = 1
    /\ abort
    /\ \E w \in Workers : w \in stored
    /\ \E w \in Workers : pc[w] = "done" /\ sent[w] = "none" /\ w \notin stored
                            /\ IsFound(SetBytes(block[w].HeaderHash),
                                        GetMiningTarget(task.header.Difficulty))
                            /\ block[w].Header.Nonce \in tried[w]
                            /\ block[w].HeaderHash = HeaderHash(block[w].Header)

\* C17: a thread that is at the top of an iteration while the flag is set hashes
\* no nonce and sends nothing from there on: its only steps are the outer select
\* and the flag check, which ends it.
C17_FlagStopsAtNextIteration ==
    [][\A w \in Workers :
          (isNonceFound # 0 /\ pc[w] \in {"select", "default"}) =>
              /\ tried'[w] = tried[w]
              /\ nonce'[w] = nonce[w]
              /\ block'[w] = block[w]
              /\ sends'[w] = sends[w]
              /\ sent'[w] = sent[w]
              /\ pc'[w] \in (IF pc[w] = "select" THEN {"select", "default", "done"}
                              ELSE {"default", "done"})]_vars

C17_Witness ==
    /\ isNonceFound = 1
    /\ ~abort
    /\ \E w \in Workers :
          /\ pc[w] = "done"
          /\ sends[w] = 0
          /\ tried[w] # {}
          /\ Cardinality(tried[w]) < assign[w].max - assign[w].min

\* C19: every nonce a thread hashes lies in its [min, max], and the threads of a
\* round, whose sub-ranges are disjoint, hash no nonce in common.
C19_HashedNoncesInRange ==
    /\ \A w \in Workers : \A n \in tried[w] : assign[w].min <= n /\ n <= assign[w].max
    /\ \A v, w \in Workers : v # w => tried[v] \cap tried[w] = {}

\* C20: the result channel takes at most one send of each thread, a found
\* Result or nil; a thread whose send was taken is at the flag store or has
\* stopped; a round of NumWorkers threads delivers at most NumWorkers messages.
C20_AtMostOneSendPerWorker ==
    /\ \A w \in Workers :
          /\ sends[w] <= 1
          /\ sends[w] = 1 <=> sent[w] # "none"
          /\ sends[w] = 1 => pc[w] \in {"store", "done"}
          /\ sent[w] = "nil" => pc[w] = "done"
    /\ Len(received) = Cardinality({w \in Workers : sends[w] = 1})
    /\ Len(received) <= NumWorkers

C20_Witness ==
    /\ Len(received) = NumWorkers
    /\ \E v, w \in Workers : sent[v] = "found" /\ sent[w] = "nil"
    /\ \A w \in Workers : pc[w] = "done" /\ sends[w] = 1

====
